---------------------------- MODULE Spec2Model ----------------------------
(***************************************************************************)
(* grun: wait until enough GPU capacity is free, then run a command on the *)
(* chosen devices or occupy them.  The model follows src/grun/core.py      *)
(* (selector, waiter, main, SIGINT handler) and src/grun/occupier.py       *)
(* (occupation session).                                                   *)
(*                                                                         *)
(* Memory is counted in KiB, so that 1024**3 bytes is GiB == 1024 * 1024   *)
(* and every sum stays inside TLC's integers.  The --mem argument is a     *)
(* float number of GB; it is modelled as a count of half GB (args.mem = 3  *)
(* is --mem 1.5).                                                          *)
(***************************************************************************)
EXTENDS Integers, Sequences, FiniteSets, TLC

VARIABLES
    args,              \* argparse namespace: mem, gpus, interval, occupy, command, strategy
    settings,          \* settings.notification: service, credentials, the two flags
    nvml_count,        \* pynvml.nvmlDeviceGetCount() of this machine
    nvml,              \* the driver's answers to the queries of one capture
    pc,                \* position of the main thread
    gpus,              \* list captured by get_gpu_info in this loop iteration
    result,            \* result of wait_for_gpu's loop (NotFound is None)
    polls,             \* history: one entry per telemetry capture, TRUE when it gave Found
    sleeps,            \* history: the durations passed to time.sleep by wait_for_gpu
    gpu_indices,       \* return value of wait_for_gpu
    sent,              \* history: the events passed to notifier.send, in order
    queue,             \* requests submitted to the notifier's executor, not yet run
    delivery,          \* history: outcome of each request the worker has run
    child,             \* subprocess started by run_command_on_gpu
    cuda_count,        \* len(cuda.gpus) seen by the occupier
    session,           \* occupation session: None, Initializing, Running, Terminated
    memory_occupiers,  \* device index -> buffer held (the dict of occupier.py)
    pos,               \* position of the running for-loop inside gpu_indices
    passes,            \* completed passes of the run loop
    in_flight,         \* devices with a launched, not yet synchronized kernel
    launched,          \* history: devices on which a kernel was ever launched
    fault,             \* the exception the run loop's last step raised, if any
    alloc_calls,       \* history: number of cuda.device_array calls
    alloc_failed,      \* history: some cuda.device_array call raised
    term_cause,        \* history: what ended the session
    interrupted,       \* history: position at which SIGINT arrived ("" if none)
    usage_stream,      \* history: stream parse_args wrote its error to ("" if none)
    exit_cause,        \* history: what ended the process ("" while it runs)
    exit_code          \* process exit status once pc = "exited"

vars == <<args, settings, nvml_count, nvml, pc, gpus, result, polls, sleeps,
          gpu_indices, sent, queue, delivery, child, cuda_count, session,
          memory_occupiers, pos, passes, in_flight, launched, fault,
          alloc_calls, alloc_failed, term_cause, interrupted, usage_stream,
          exit_cause, exit_code>>

inputs == <<args, settings, nvml_count, nvml>>
waiter == <<gpus, result, polls, sleeps, gpu_indices>>
notifier == <<queue, delivery>>
occupier == <<cuda_count, session, memory_occupiers, pos, passes, in_flight,
              launched, fault, alloc_calls, alloc_failed, term_cause>>

(***************************************************************************)
(* Bounds of the model.                                                    *)
(***************************************************************************)
MaxDevices == 2        \* devices of the machine the program runs on
MaxSelDevices == 3     \* devices of a snapshot handed to the selector alone
MaxPolls == 3          \* telemetry captures of one wait
MaxPasses == 2         \* passes of the occupier's run loop

(***************************************************************************)
(* Data model.                                                             *)
(***************************************************************************)
GiB == 1024 * 1024

UTILIZATION == "utilization"
EXCLUSIVE == "exclusive"
GpuSelectionStrategy == {UTILIZATION, EXCLUSIVE}

FreeValues == {0, GiB, 2 * GiB}
UtilValues == {10, 50}
ProcValues == {0, 1}
TotalMemory == 2 * GiB

\* One dict appended by get_gpu_info for device i.
GpuInfo(i, free, util, procs) ==
    [index |-> i, free_memory |-> free, total_memory |-> TotalMemory,
     used_memory |-> TotalMemory - free, utilization |-> util,
     process_count |-> procs]

\* The lists get_gpu_info can return on a machine of n devices: one dict per
\* device, in index order 0..n-1.
Snapshots(n, frees) ==
    { [k \in 1..n |-> GpuInfo(k - 1, f[k][1], f[k][2], f[k][3])] :
        f \in [1..n -> frees \X UtilValues \X ProcValues] }

NotFound == [found |-> FALSE, indices |-> <<>>, chosen |-> <<>>]
Found(selected) ==
    [found |-> TRUE,
     indices |-> [k \in 1..Len(selected) |-> selected[k].index],
     chosen |-> selected]

(***************************************************************************)
(* find_available_gpu                                                      *)
(***************************************************************************)
\* int(required_memory_gb * 1024**3), the argument given in half GB.
RequiredBytes(mem) == (mem * GiB) \div 2

\* [x for x in s if Keep(x)], order kept.
RECURSIVE FilterMemory(_, _)
FilterMemory(s, required_bytes) ==
    IF s = <<>> THEN <<>>
    ELSE LET rest == FilterMemory(Tail(s), required_bytes)
         IN IF Head(s).free_memory >= required_bytes
            THEN <<Head(s)>> \o rest ELSE rest

\* Faulty variant: the process_count filter of the exclusive strategy is lost.
FilterExclusiveKeepsAll(s) == s

\* Faulty variant: a device with one resident process passes the filter.
RECURSIVE FilterExclusiveAtMostOne(_)
FilterExclusiveAtMostOne(s) ==
    IF s = <<>> THEN <<>>
    ELSE LET rest == FilterExclusiveAtMostOne(Tail(s))
         IN IF Head(s).process_count <= 1 THEN <<Head(s)>> \o rest ELSE rest

RECURSIVE FilterExclusive(_)
FilterExclusive(s) ==
    IF s = <<>> THEN <<>>
    ELSE LET rest == FilterExclusive(Tail(s))
         IN IF Head(s).process_count = 0 THEN <<Head(s)>> \o rest ELSE rest

\* The sort keys: lambda x: -x["free_memory"] and
\* lambda x: (x["utilization"], -x["free_memory"]).
KeyExclusive(x) == <<0 - x.free_memory>>
\* Faulty variant: the minus sign of the second key component is lost.
KeyUtilizationAscendingFree(x) == <<x.utilization, x.free_memory>>
KeyUtilization(x) == <<x.utilization, 0 - x.free_memory>>
SortKey(x, strategy) ==
    IF strategy = EXCLUSIVE THEN KeyExclusive(x) ELSE KeyUtilization(x)

\* Python's order on tuples of equal length.
RECURSIVE TupleLess(_, _)
TupleLess(a, b) ==
    IF a = <<>> THEN FALSE
    ELSE Head(a) < Head(b) \/ (Head(a) = Head(b) /\ TupleLess(Tail(a), Tail(b)))

\* list.sort is stable: x goes behind every element whose key is not greater.
RECURSIVE InsertByKey(_, _, _)
InsertByKey(sorted, x, strategy) ==
    IF sorted = <<>> THEN <<x>>
    ELSE IF TupleLess(SortKey(x, strategy), SortKey(Head(sorted), strategy))
         THEN <<x>> \o sorted
         ELSE <<Head(sorted)>> \o InsertByKey(Tail(sorted), x, strategy)

RECURSIVE SortByKey(_, _)
SortByKey(s, strategy) ==
    IF s = <<>> THEN <<>>
    ELSE InsertByKey(SortByKey(SubSeq(s, 1, Len(s) - 1), strategy),
                     s[Len(s)], strategy)

\* s[:n] of Python, n negative included.
Slice(s, n) ==
    IF n >= 0 THEN SubSeq(s, 1, IF n < Len(s) THEN n ELSE Len(s))
    ELSE SubSeq(s, 1, IF Len(s) + n > 0 THEN Len(s) + n ELSE 0)

\* The devices left after filtering, in the order of the strategy's sort.
Ranked(snapshot, mem, strategy) ==
    LET eligible == FilterMemory(snapshot, RequiredBytes(mem))
    IN IF strategy = EXCLUSIVE
       THEN SortByKey(FilterExclusive(eligible), strategy)
       ELSE SortByKey(eligible, strategy)

\* Faulty variant: the length test is lost, whatever is ranked is returned.
find_available_gpu_partial(snapshot, mem, num_gpus, strategy) ==
    LET ranked == Ranked(snapshot, mem, strategy)
    IN IF snapshot = <<>> THEN NotFound
       ELSE IF FilterMemory(snapshot, RequiredBytes(mem)) = <<>> THEN NotFound
       ELSE IF ranked # <<>> THEN Found(Slice(ranked, num_gpus))
       ELSE NotFound

\* Faulty variant: > in place of >= in the length test.
find_available_gpu_strict(snapshot, mem, num_gpus, strategy) ==
    LET ranked == Ranked(snapshot, mem, strategy)
    IN IF snapshot = <<>> THEN NotFound
       ELSE IF FilterMemory(snapshot, RequiredBytes(mem)) = <<>> THEN NotFound
       ELSE IF Len(ranked) > num_gpus THEN Found(Slice(ranked, num_gpus))
       ELSE NotFound

find_available_gpu(snapshot, mem, num_gpus, strategy) ==
    LET ranked == Ranked(snapshot, mem, strategy)
    IN IF snapshot = <<>> THEN NotFound
       ELSE IF FilterMemory(snapshot, RequiredBytes(mem)) = <<>> THEN NotFound
       ELSE IF Len(ranked) >= num_gpus THEN Found(Slice(ranked, num_gpus))
       ELSE NotFound


(***************************************************************************)
(* Inputs and initial state.                                               *)
(***************************************************************************)
MemChoices == {2, 3, 5}             \* --mem 1.0, 1.5, 2.5
IntervalChoices == {1, 2}           \* --interval, seconds
AcceptedIntervals == {-1, 0, 1}     \* --interval: type=float takes any number
CommandChoices == {<<>>, <<"python", "train.py">>}
ProgMemChoices == {3}               \* --mem of the program runs
ProgFreeValues == {0, 2 * GiB}      \* info.free of the program runs

\* settings.notification.service, and whether the section of the selected
\* service carries its credentials (bark.key, telegram.bot_token and chat_id,
\* slack.webhook_url; all of them default to "").
Services == {"none", "bark", "telegram", "slack"}
NotificationSettings ==
    [service : Services, credentials : BOOLEAN,
     notify_on_gpu_found : BOOLEAN, notify_on_task_complete : BOOLEAN]

\* The settings of the program runs: the default service, a service left
\* without credentials and a service with them (Bark, Telegram and Slack
\* differ in the URL and the payload of their request and in nothing else).
ProgSettings ==
    {s \in NotificationSettings :
        \/ s.service = "none" /\ ~s.credentials
        \/ s.service = "bark" /\ ~s.credentials
        \/ s.service = "slack" /\ s.credentials}

\* os.environ of the parent: name -> value, a value being a list of tokens.
CUDA_VISIBLE_DEVICES == "CUDA_VISIBLE_DEVICES"
Environs ==
    { [n \in {"PATH"} |-> <<"/usr/bin">>],
      [n \in {"PATH", CUDA_VISIBLE_DEVICES} |->
          IF n = "PATH" THEN <<"/usr/bin">> ELSE <<"7">>] }

NoIndices == [returned |-> FALSE, indices |-> <<>>]
NoEnv == [n \in {} |-> <<>>]
NoChild == [started |-> FALSE, environ |-> NoEnv, env |-> NoEnv,
            status |-> -1]
NoFault == [stage |-> "", device |-> -1]
NoReadings == [count_ok |-> TRUE, devices |-> <<>>]
NoExit == <<>>

\* Everything but the inputs, as it is when main() is entered.
Fresh ==
    /\ result = NotFound
    /\ polls = <<>>
    /\ sleeps = <<>>
    /\ gpu_indices = NoIndices
    /\ sent = <<>>
    /\ queue = <<>>
    /\ delivery = <<>>
    /\ child = NoChild
    /\ cuda_count = 0
    /\ session = "None"
    /\ memory_occupiers = {}
    /\ pos = 0
    /\ passes = 0
    /\ in_flight = {}
    /\ launched = {}
    /\ fault = NoFault
    /\ alloc_calls = 0
    /\ alloc_failed = FALSE
    /\ term_cause = ""
    /\ interrupted = ""
    /\ usage_stream = ""
    /\ exit_cause = ""
    /\ exit_code = NoExit

Init ==
    /\ args \in [mem : ProgMemChoices, gpus : -1..MaxDevices, interval : IntervalChoices,
                 occupy : BOOLEAN, command : CommandChoices,
                 strategy : GpuSelectionStrategy]
    /\ settings \in ProgSettings
    /\ nvml_count \in 0..MaxDevices
    /\ nvml = NoReadings
    /\ pc = "parse_args"
    /\ gpus = <<>>
    /\ Fresh

(***************************************************************************)
(* The selector alone: every snapshot list and request, one application.   *)
(***************************************************************************)
InitSelect ==
    /\ args \in [mem : MemChoices, gpus : -1..MaxSelDevices, interval : {1},
                 occupy : {FALSE}, command : {<<"train">>},
                 strategy : GpuSelectionStrategy]
    /\ settings = [service |-> "none", credentials |-> FALSE,
                   notify_on_gpu_found |-> FALSE,
                   notify_on_task_complete |-> FALSE]
    /\ nvml_count \in 0..MaxSelDevices
    /\ nvml = NoReadings
    /\ gpus \in Snapshots(nvml_count, FreeValues)
    /\ pc = "select"
    /\ Fresh

Select ==
    /\ pc = "select"
    /\ result' = find_available_gpu(gpus, args.mem, args.gpus, args.strategy)
    /\ pc' = "selected"
    /\ UNCHANGED <<inputs, gpus, polls, sleeps, gpu_indices, sent, notifier,
                   child, occupier, interrupted, usage_stream, exit_cause,
                   exit_code>>

NextSelect == Select

SpecSelect == InitSelect /\ [][NextSelect]_vars

(***************************************************************************)
(* The program: main() of core.py.                                         *)
(***************************************************************************)
Indices == gpu_indices.indices
RemoteServices == {"bark", "telegram", "slack"}
SessionActive == session \in {"Initializing", "Running"}

\* The process ends with status code: the interpreter unwinds (SystemExit or
\* an uncaught exception is caught by no handler of the program) and the
\* driver frees whatever the process held on the devices.
ProcessExit(code, cause) ==
    /\ pc' = "exited"
    /\ exit_code' = <<code>>
    /\ exit_cause' = cause
    /\ memory_occupiers' = {}
    /\ in_flight' = {}
    /\ session' = IF SessionActive THEN "Terminated" ELSE session

\* console = Console(): rich writes to sys.stdout unless told otherwise.
ConsoleStream == "stdout"

\* parse_args: both --occupy and a command, or neither; console.print of the
\* error, then sys.exit(1).
ParseArgsUsageError ==
    /\ pc = "parse_args"
    /\ \/ args.occupy /\ args.command # <<>>
       \/ ~args.occupy /\ args.command = <<>>
    /\ usage_stream' = ConsoleStream
    /\ ProcessExit(1, "usage")
    /\ UNCHANGED <<inputs, waiter, sent, notifier, child, cuda_count, pos,
                   passes, launched, fault, alloc_calls, alloc_failed,
                   term_cause, interrupted>>

ParseArgs ==
    /\ pc = "parse_args"
    /\ args.occupy <=> args.command = <<>>
    /\ pc' = "get_notifier"
    /\ UNCHANGED <<inputs, waiter, sent, notifier, child, occupier,
                   interrupted, usage_stream, exit_cause, exit_code>>

\* get_notifier: getattr(settings.notification, settings.notification.service)
\* finds the section of the service and the registry builds its notifier.
GetNotifier ==
    /\ pc = "get_notifier"
    /\ settings.service \in RemoteServices
    /\ pc' = "startup"
    /\ UNCHANGED <<inputs, waiter, sent, notifier, child, occupier,
                   interrupted, usage_stream, exit_cause, exit_code>>

\* NotificationSettings has the fields bark, telegram and slack and no field
\* named none: the getattr raises AttributeError, which nothing catches.
GetNotifierFails ==
    /\ pc = "get_notifier"
    /\ settings.service \notin RemoteServices
    /\ ProcessExit(1, "notifier")
    /\ UNCHANGED <<inputs, waiter, sent, notifier, child, cuda_count, pos,
                   passes, launched, fault, alloc_calls, alloc_failed,
                   term_cause, interrupted, usage_stream>>

\* GpuMonitor() with nvmlInit succeeding, the strategy enum.
Startup ==
    /\ pc = "startup"
    /\ pc' = "poll"
    /\ UNCHANGED <<inputs, waiter, sent, notifier, child, occupier,
                   interrupted, usage_stream, exit_cause, exit_code>>

\* nvmlInit raises: nothing in main catches it.
NvmlInitFails ==
    /\ pc = "startup"
    /\ ProcessExit(1, "nvml_init")
    /\ UNCHANGED <<inputs, waiter, sent, notifier, child, cuda_count, pos,
                   passes, launched, fault, alloc_calls, alloc_failed,
                   term_cause, interrupted, usage_stream>>

(***************************************************************************)
(* wait_for_gpu                                                            *)
(***************************************************************************)
\* One find_available_gpu call of the loop: a fresh capture, then selection.
Poll ==
    /\ pc = "poll"
    /\ Len(polls) < MaxPolls
    /\ \E snapshot \in Snapshots(nvml_count, ProgFreeValues) :
          /\ gpus' = snapshot
          /\ result' = find_available_gpu(snapshot, args.mem, args.gpus,
                                          args.strategy)
    /\ polls' = Append(polls, result'.found)
    /\ pc' = IF result'.found THEN "found" ELSE "sleep"
    /\ UNCHANGED <<inputs, sleeps, gpu_indices, sent, notifier, child,
                   occupier, interrupted, usage_stream, exit_cause,
                   exit_code>>

\* The capture cannot obtain the device count or a device's memory figures:
\* the NVMLError leaves find_available_gpu, wait_for_gpu and main.
PollFails ==
    /\ pc = "poll"
    /\ Len(polls) < MaxPolls
    /\ ProcessExit(1, "telemetry")
    /\ UNCHANGED <<inputs, waiter, sent, notifier, child, cuda_count, pos,
                   passes, launched, fault, alloc_calls, alloc_failed,
                   term_cause, interrupted, usage_stream>>

\* Faulty variant: a fixed sleep in place of check_interval.
SleepHardcoded ==
    /\ pc = "sleep"
    /\ sleeps' = Append(sleeps, 1)
    /\ gpus' = <<>>
    /\ pc' = "poll"
    /\ UNCHANGED <<inputs, result, polls, gpu_indices, sent, notifier, child,
                   occupier, interrupted, usage_stream, exit_cause,
                   exit_code>>

\* Faulty variant: the sleep grows with the number of misses.
SleepBackoff ==
    /\ pc = "sleep"
    /\ sleeps' = Append(sleeps, args.interval * Len(polls))
    /\ gpus' = <<>>
    /\ pc' = "poll"
    /\ UNCHANGED <<inputs, result, polls, gpu_indices, sent, notifier, child,
                   occupier, interrupted, usage_stream, exit_cause,
                   exit_code>>

\* time.sleep of a negative duration raises ValueError, which nothing
\* between the loop and the interpreter catches.
SleepFails ==
    /\ pc = "sleep"
    /\ args.interval < 0
    /\ ProcessExit(1, "sleep")
    /\ UNCHANGED <<inputs, waiter, sent, notifier, child, cuda_count, pos,
                   passes, launched, fault, alloc_calls, alloc_failed,
                   term_cause, interrupted, usage_stream>>

\* result is None: time.sleep(check_interval), then the loop starts over.
\* A duration of 0 returns at once.
Sleep ==
    /\ pc = "sleep"
    /\ args.interval >= 0
    /\ sleeps' = Append(sleeps, args.interval)
    /\ gpus' = <<>>
    /\ pc' = "poll"
    /\ UNCHANGED <<inputs, result, polls, gpu_indices, sent, notifier, child,
                   occupier, interrupted, usage_stream, exit_cause,
                   exit_code>>

\* Faulty variant: a found result is dropped and the loop polls again.
ReturnFoundPollsAgain ==
    /\ pc = "found"
    /\ gpus' = <<>>
    /\ result' = NotFound
    /\ pc' = "poll"
    /\ UNCHANGED <<inputs, polls, sleeps, gpu_indices, sent, notifier, child,
                   occupier, interrupted, usage_stream, exit_cause,
                   exit_code>>

\* result is not None: print the chosen devices and return gpu_indices.
ReturnFound ==
    /\ pc = "found"
    /\ gpu_indices' = [returned |-> TRUE, indices |-> result.indices]
    /\ gpus' = <<>>
    /\ result' = NotFound
    /\ pc' = "notify_found"
    /\ UNCHANGED <<inputs, polls, sleeps, sent, notifier, child, occupier,
                   interrupted, usage_stream, exit_cause, exit_code>>

(***************************************************************************)
(* main after the wait                                                     *)
(***************************************************************************)
\* sep.join(parts), a text being the list of its tokens.
RECURSIVE Join(_, _)
Join(sep, parts) ==
    IF Len(parts) <= 1 THEN parts
    ELSE <<Head(parts), sep>> \o Join(sep, Tail(parts))

\* " ".join(args.command) if not args.occupy else "<GPU Occupation>"
task_name == IF ~args.occupy THEN Join(" ", args.command)
             ELSE <<"<GPU Occupation>">>

\* What the f-string of a message interpolates: the task, the index list,
\* the exception.
Message(task, indices, error) ==
    [task |-> task, gpus |-> indices, error |-> error]

\* notifier.send(title, message).  Bark, Telegram and Slack return False when
\* their credentials are empty; otherwise _make_request submits the request
\* to the executor and returns True at once, the Future being dropped.
send(title, message) ==
    /\ sent' = Append(sent, [title |-> title, message |-> message])
    /\ queue' = IF settings.service \in RemoteServices /\ settings.credentials
                THEN Append(queue, title) ELSE queue

\* Faulty variant: the found event is sent whatever the flag says.
NotifyFoundUngated ==
    /\ pc = "notify_found"
    /\ send("GPUs Found", Message(task_name, Indices, <<>>))
    /\ pc' = IF args.occupy THEN "occupy" ELSE "run_command"
    /\ UNCHANGED <<inputs, waiter, delivery, child, occupier, interrupted,
                   usage_stream, exit_cause, exit_code>>

NotifyFound ==
    /\ pc = "notify_found"
    /\ IF settings.notify_on_gpu_found
       THEN send("GPUs Found", Message(task_name, Indices, <<>>))
       ELSE UNCHANGED <<sent, queue>>
    /\ pc' = IF args.occupy THEN "occupy" ELSE "run_command"
    /\ UNCHANGED <<inputs, waiter, delivery, child, occupier, interrupted,
                   usage_stream, exit_cause, exit_code>>

\* map(str, gpu_indices)
StrAll(indices) == [k \in 1..Len(indices) |-> ToString(indices[k])]

\* Faulty variant: the indices are joined in ascending order.
ChildEnvSorted(environ, indices) ==
    LET n == Len(indices)
        ascending ==
            CHOOSE s \in [1..n -> {indices[k] : k \in 1..n}] :
                /\ {s[k] : k \in 1..n} = {indices[k] : k \in 1..n}
                /\ \A i, j \in 1..n : i < j => s[i] <= s[j]
    IN [v \in DOMAIN environ \cup {CUDA_VISIBLE_DEVICES} |->
           IF v = CUDA_VISIBLE_DEVICES
           THEN Join(",", StrAll(ascending)) ELSE environ[v]]

\* env = dict(os.environ); env["CUDA_VISIBLE_DEVICES"] = ",".join(...)
ChildEnv(environ, indices) ==
    [n \in DOMAIN environ \cup {CUDA_VISIBLE_DEVICES} |->
        IF n = CUDA_VISIBLE_DEVICES
        THEN Join(",", StrAll(indices)) ELSE environ[n]]

\* run_command_on_gpu: the child is started with the environment of the
\* parent, CUDA_VISIBLE_DEVICES set.
RunCommand ==
    /\ pc = "run_command"
    /\ \E environ \in Environs :
          child' = [started |-> TRUE, environ |-> environ,
                    env |-> ChildEnv(environ, Indices), status |-> -1]
    /\ pc' = "child"
    /\ UNCHANGED <<inputs, waiter, sent, notifier, occupier, interrupted,
                   usage_stream, exit_cause, exit_code>>

\* Faulty variant: check=True is lost, the status of the child is ignored.
ChildExitUnchecked ==
    /\ pc = "child"
    /\ \E status \in {0, 1} : child' = [child EXCEPT !.status = status]
    /\ pc' = "notify_complete"
    /\ UNCHANGED <<inputs, waiter, sent, notifier, occupier, interrupted,
                   usage_stream, exit_cause, exit_code>>

\* subprocess.run(check=True) returns, or raises CalledProcessError.
ChildExit ==
    /\ pc = "child"
    /\ \E status \in {0, 1} :
          /\ child' = [child EXCEPT !.status = status]
          /\ pc' = IF status = 0 THEN "notify_complete" ELSE "task_failed"
    /\ UNCHANGED <<inputs, waiter, sent, notifier, occupier, interrupted,
                   usage_stream, exit_cause, exit_code>>

\* The try block of main ends normally; main returns.
NotifyComplete ==
    /\ pc = "notify_complete"
    /\ IF settings.notify_on_task_complete
       THEN IF args.occupy
            THEN send("Occupation Complete", Message(<<>>, <<>>, <<>>))
            ELSE send("Task Complete",
                      Message(Join(" ", args.command), <<>>, <<>>))
       ELSE UNCHANGED <<sent, queue>>
    /\ ProcessExit(0, "done")
    /\ UNCHANGED <<inputs, waiter, delivery, child, cuda_count, pos, passes,
                   launched, fault, alloc_calls, alloc_failed, term_cause,
                   interrupted, usage_stream>>

\* except Exception of main: e is the CalledProcessError of the child.
TaskFailed ==
    /\ pc = "task_failed"
    /\ IF settings.notify_on_task_complete
       THEN send("Task Failed",
                 Message(task_name, <<>>,
                         <<"CalledProcessError", child.status>>))
       ELSE UNCHANGED <<sent, queue>>
    /\ ProcessExit(1, "task_failed")
    /\ UNCHANGED <<inputs, waiter, delivery, child, cuda_count, pos, passes,
                   launched, fault, alloc_calls, alloc_failed, term_cause,
                   interrupted, usage_stream>>

(***************************************************************************)
(* occupy_gpu_memory_and_sm                                                *)
(***************************************************************************)
InvalidGpus == {k \in 1..Len(Indices) : Indices[k] >= cuda_count}

\* check_numba_available: numba missing or no CUDA device, sys.exit(1).
CheckNumbaFails ==
    /\ pc = "occupy"
    /\ ProcessExit(1, "numba")
    /\ UNCHANGED <<inputs, waiter, sent, notifier, child, cuda_count, pos,
                   passes, launched, fault, alloc_calls, alloc_failed,
                   term_cause, interrupted, usage_stream>>

\* check_numba_available returns cuda; device_count = len(cuda.gpus).
CheckNumba ==
    /\ pc = "occupy"
    /\ \E n \in 1..MaxDevices : cuda_count' = n
    /\ pc' = "validate"
    /\ UNCHANGED <<inputs, waiter, sent, notifier, child, session,
                   memory_occupiers, pos, passes, in_flight, launched, fault,
                   alloc_calls, alloc_failed, term_cause, interrupted,
                   usage_stream, exit_cause, exit_code>>

\* Faulty variant: invalid indices are reported and the session goes on.
ValidateWarnsOnly ==
    /\ pc = "validate"
    /\ InvalidGpus # {}
    /\ session' = "Initializing"
    /\ pos' = 1
    /\ pc' = "init"
    /\ UNCHANGED <<inputs, waiter, sent, notifier, child, cuda_count,
                   memory_occupiers, passes, in_flight, launched, fault,
                   alloc_calls, alloc_failed, term_cause, interrupted,
                   usage_stream, exit_cause, exit_code>>

\* Some index is >= device_count: sys.exit(1) before anything is allocated.
ValidateFails ==
    /\ pc = "validate"
    /\ InvalidGpus # {}
    /\ ProcessExit(1, "invalid_index")
    /\ UNCHANGED <<inputs, waiter, sent, notifier, child, cuda_count, pos,
                   passes, launched, fault, alloc_calls, alloc_failed,
                   term_cause, interrupted, usage_stream>>

\* Every index is valid: process title, kernel definition, status panel,
\* memory_occupiers = {} and the allocation loop is entered.
Validate ==
    /\ pc = "validate"
    /\ InvalidGpus = {}
    /\ session' = "Initializing"
    /\ pos' = 1
    /\ pc' = "init"
    /\ UNCHANGED <<inputs, waiter, sent, notifier, child, cuda_count,
                   memory_occupiers, passes, in_flight, launched, fault,
                   alloc_calls, alloc_failed, term_cause, interrupted,
                   usage_stream, exit_cause, exit_code>>

\* An exception between the kernel definition and the status panel falls to
\* the outer except Exception: sys.exit(1).
KernelSetupFails ==
    /\ pc = "validate"
    /\ InvalidGpus = {}
    /\ ProcessExit(1, "kernel_setup")
    /\ UNCHANGED <<inputs, waiter, sent, notifier, child, cuda_count, pos,
                   passes, launched, fault, alloc_calls, alloc_failed,
                   term_cause, interrupted, usage_stream>>

\* cuda.device_array succeeds for the next index of gpu_indices.
Allocate ==
    /\ pc = "init"
    /\ pos <= Len(Indices)
    /\ memory_occupiers' = memory_occupiers \cup {Indices[pos]}
    /\ alloc_calls' = alloc_calls + 1
    /\ pos' = pos + 1
    /\ UNCHANGED <<inputs, pc, waiter, sent, notifier, child, cuda_count,
                   session, passes, in_flight, launched, fault, alloc_failed,
                   term_cause, interrupted, usage_stream, exit_cause,
                   exit_code>>

\* Faulty variant: the failed device is skipped and initialization goes on.
AllocateFailsSkipsDevice ==
    /\ pc = "init"
    /\ pos <= Len(Indices)
    /\ alloc_calls' = alloc_calls + 1
    /\ alloc_failed' = TRUE
    /\ pos' = pos + 1
    /\ UNCHANGED <<inputs, pc, waiter, sent, notifier, child, cuda_count,
                   session, memory_occupiers, passes, in_flight, launched,
                   fault, term_cause, interrupted, usage_stream, exit_cause,
                   exit_code>>

\* The allocation raises: the error is printed and sys.exit(1) ends the
\* process, whatever was allocated for earlier devices going with it.
AllocateFails ==
    /\ pc = "init"
    /\ pos <= Len(Indices)
    /\ alloc_calls' = alloc_calls + 1
    /\ alloc_failed' = TRUE
    /\ term_cause' = "alloc"
    /\ ProcessExit(1, "alloc")
    /\ UNCHANGED <<inputs, waiter, sent, notifier, child, cuda_count, pos,
                   passes, launched, fault, interrupted, usage_stream>>

\* Faulty variant: the run loop starts once one device is allocated.
EnterRunLoopEarly ==
    /\ pc = "init"
    /\ pos > 1 \/ pos > Len(Indices)
    /\ session' = "Running"
    /\ pos' = 1
    /\ pc' = "run"
    /\ UNCHANGED <<inputs, waiter, sent, notifier, child, cuda_count,
                   memory_occupiers, passes, in_flight, launched, fault,
                   alloc_calls, alloc_failed, term_cause, interrupted,
                   usage_stream, exit_cause, exit_code>>

\* The allocation loop is through: while True.
EnterRunLoop ==
    /\ pc = "init"
    /\ pos > Len(Indices)
    /\ session' = "Running"
    /\ pos' = 1
    /\ pc' = "run"
    /\ UNCHANGED <<inputs, waiter, sent, notifier, child, cuda_count,
                   memory_occupiers, passes, in_flight, launched, fault,
                   alloc_calls, alloc_failed, term_cause, interrupted,
                   usage_stream, exit_cause, exit_code>>

\* busy_kernel[blocks, threads](memory_occupiers[gpu_idx]) on the next device.
LaunchKernel ==
    /\ pc = "run"
    /\ pos <= Len(Indices)
    /\ in_flight' = in_flight \cup {Indices[pos]}
    /\ launched' = launched \cup {Indices[pos]}
    /\ fault' = NoFault
    /\ pc' = "sync"
    /\ UNCHANGED <<inputs, waiter, sent, notifier, child, cuda_count, session,
                   memory_occupiers, pos, passes, alloc_calls, alloc_failed,
                   term_cause, interrupted, usage_stream, exit_cause,
                   exit_code>>

\* Faulty variant: the exception of one device ends the loop.
LaunchFailsBreaks ==
    /\ pc = "run"
    /\ pos <= Len(Indices)
    /\ fault' = [stage |-> "launch", device |-> Indices[pos]]
    /\ session' = "Terminated"
    /\ term_cause' = "exception"
    /\ memory_occupiers' = {}
    /\ pc' = "notify_complete"
    /\ UNCHANGED <<inputs, waiter, sent, notifier, child, cuda_count, pos,
                   passes, in_flight, launched, alloc_calls, alloc_failed,
                   interrupted, usage_stream, exit_cause, exit_code>>

\* The launch raises: the inner except prints and continues with the next
\* device.
LaunchFails ==
    /\ pc = "run"
    /\ pos <= Len(Indices)
    /\ fault' = [stage |-> "launch", device |-> Indices[pos]]
    /\ pos' = pos + 1
    /\ UNCHANGED <<inputs, pc, waiter, sent, notifier, child, cuda_count,
                   session, memory_occupiers, passes, in_flight, launched,
                   alloc_calls, alloc_failed, term_cause, interrupted,
                   usage_stream, exit_cause, exit_code>>

\* Faulty variant: the loop goes on to the next device while the kernel runs.
SynchronizeReturnsEarly ==
    /\ pc = "sync"
    /\ fault' = NoFault
    /\ pos' = pos + 1
    /\ pc' = "run"
    /\ UNCHANGED <<inputs, waiter, sent, notifier, child, cuda_count, session,
                   memory_occupiers, passes, in_flight, launched, alloc_calls,
                   alloc_failed, term_cause, interrupted, usage_stream,
                   exit_cause, exit_code>>

\* cuda.synchronize() returns: the kernel is complete.
Synchronize ==
    /\ pc = "sync"
    /\ in_flight' = in_flight \ {Indices[pos]}
    /\ fault' = NoFault
    /\ pos' = pos + 1
    /\ pc' = "run"
    /\ UNCHANGED <<inputs, waiter, sent, notifier, child, cuda_count, session,
                   memory_occupiers, passes, launched, alloc_calls,
                   alloc_failed, term_cause, interrupted, usage_stream,
                   exit_cause, exit_code>>

\* cuda.synchronize() raises: the kernel has faulted; the inner except prints
\* and continues with the next device.
SynchronizeFails ==
    /\ pc = "sync"
    /\ in_flight' = in_flight \ {Indices[pos]}
    /\ fault' = [stage |-> "sync", device |-> Indices[pos]]
    /\ pos' = pos + 1
    /\ pc' = "run"
    /\ UNCHANGED <<inputs, waiter, sent, notifier, child, cuda_count, session,
                   memory_occupiers, passes, launched, alloc_calls,
                   alloc_failed, term_cause, interrupted, usage_stream,
                   exit_cause, exit_code>>

\* The pass is through: time.sleep(0.5), then the next pass.
PassSleep ==
    /\ pc = "run"
    /\ pos > Len(Indices)
    /\ passes < MaxPasses
    /\ passes' = passes + 1
    /\ fault' = NoFault
    /\ pos' = 1
    /\ UNCHANGED <<inputs, pc, waiter, sent, notifier, child, cuda_count,
                   session, memory_occupiers, in_flight, launched,
                   alloc_calls, alloc_failed, term_cause, interrupted,
                   usage_stream, exit_cause, exit_code>>

\* Faulty variant: the buffers outlive the function (kept in a global).
TopLevelExceptionKeepsBuffers ==
    /\ pc = "run"
    /\ pos <= Len(Indices)
    /\ fault' = [stage |-> "select", device |-> Indices[pos]]
    /\ session' = "Terminated"
    /\ term_cause' = "exception"
    /\ pc' = "notify_complete"
    /\ UNCHANGED <<inputs, waiter, sent, notifier, child, cuda_count,
                   memory_occupiers, pos, passes, in_flight, launched,
                   alloc_calls, alloc_failed, interrupted, usage_stream,
                   exit_cause, exit_code>>

\* An exception outside the inner try (entering the device context, reading
\* MAX_GRID_DIM_X): the outer except prints and breaks, the function returns
\* and its local dict, the only holder of the buffers, goes with its frame.
TopLevelException ==
    /\ pc = "run"
    /\ pos <= Len(Indices)
    /\ fault' = [stage |-> "select", device |-> Indices[pos]]
    /\ session' = "Terminated"
    /\ term_cause' = "exception"
    /\ memory_occupiers' = {}
    /\ pc' = "notify_complete"
    /\ UNCHANGED <<inputs, waiter, sent, notifier, child, cuda_count, pos,
                   passes, in_flight, launched, alloc_calls, alloc_failed,
                   interrupted, usage_stream, exit_cause, exit_code>>

(***************************************************************************)
(* signal_handler                                                          *)
(***************************************************************************)
ProcessAlive == pc \notin {"exited", "select", "selected"}

\* Faulty variant: the handler prints and returns.
SigIntReturns ==
    /\ ProcessAlive
    /\ interrupted = ""
    /\ interrupted' = pc
    /\ UNCHANGED <<inputs, pc, waiter, sent, notifier, child, occupier,
                   usage_stream, exit_cause, exit_code>>

\* SIGINT: the handler prints and calls sys.exit(0).  SystemExit is no
\* Exception and no KeyboardInterrupt, so no except clause of the program
\* stops it, wherever the main thread is.
SigInt ==
    /\ ProcessAlive
    /\ interrupted' = pc
    /\ term_cause' = IF SessionActive THEN "interrupt" ELSE term_cause
    /\ ProcessExit(0, "interrupt")
    /\ UNCHANGED <<inputs, waiter, sent, notifier, child, cuda_count, pos,
                   passes, launched, fault, alloc_calls, alloc_failed,
                   usage_stream>>

(***************************************************************************)
(* The worker thread of the notifier's ThreadPoolExecutor(max_workers=1)   *)
(***************************************************************************)
\* Faulty variant: the failure of a request is raised in the main thread.
WorkerFailsSurfaces ==
    /\ queue # <<>>
    /\ queue' = Tail(queue)
    /\ delivery' = Append(delivery, FALSE)
    /\ ProcessExit(1, "notification")
    /\ UNCHANGED <<inputs, waiter, sent, child, cuda_count, pos, passes,
                   launched, fault, alloc_calls, alloc_failed, term_cause,
                   interrupted, usage_stream>>

\* _request of the oldest submitted request: the response is a success.
WorkerDelivers ==
    /\ queue # <<>>
    /\ queue' = Tail(queue)
    /\ delivery' = Append(delivery, TRUE)
    /\ UNCHANGED <<inputs, pc, waiter, sent, child, occupier, interrupted,
                   usage_stream, exit_cause, exit_code>>

\* _request raises: a RequestException is printed and False returned, any
\* other exception stays in the Future that nothing reads.  Either way the
\* main thread sees nothing of it.
WorkerFails ==
    /\ queue # <<>>
    /\ queue' = Tail(queue)
    /\ delivery' = Append(delivery, FALSE)
    /\ UNCHANGED <<inputs, pc, waiter, sent, child, occupier, interrupted,
                   usage_stream, exit_cause, exit_code>>

Next ==
    \/ ParseArgsUsageError \/ ParseArgs \/ GetNotifier \/ GetNotifierFails
    \/ Startup \/ NvmlInitFails
    \/ Poll \/ PollFails \/ Sleep \/ ReturnFound
    \/ NotifyFound \/ RunCommand \/ ChildExit \/ NotifyComplete \/ TaskFailed
    \/ CheckNumbaFails \/ CheckNumba \/ ValidateFails \/ Validate
    \/ KernelSetupFails \/ Allocate \/ AllocateFails \/ EnterRunLoop
    \/ LaunchKernel \/ LaunchFails \/ Synchronize \/ SynchronizeFails
    \/ PassSleep \/ TopLevelException \/ SigInt
    \/ WorkerDelivers \/ WorkerFails

Spec == Init /\ [][Next]_vars

(***************************************************************************)
(* One capture of the waiter, the driver's answers fixed in advance.       *)
(***************************************************************************)
\* What a pynvml query gives: a value, or NVMLError.
Ok(v) == [ok |-> TRUE, value |-> v]
NVMLError == [ok |-> FALSE, value |-> 0]
Answers(values) == {Ok(v) : v \in values} \cup {NVMLError}

\* The queries of get_gpu_info for one device: the handle and its memory
\* info, the utilization rates, the compute processes.
DeviceReadings ==
    [memory : Answers(ProgFreeValues), utilization : Answers(UtilValues),
     processes : Answers(ProcValues)]
\* nvmlDeviceGetCount, then the queries for each of the n devices.
Readings(n) == [count_ok : BOOLEAN, devices : [1..n -> DeviceReadings]]

\* Faulty variant: a device whose memory query fails is left out of the list.
RECURSIVE get_gpu_info_skipping(_, _, _)
get_gpu_info_skipping(devices, i, acc) ==
    IF i > Len(devices) THEN [raised |-> FALSE, gpus |-> acc]
    ELSE IF ~devices[i].memory.ok
         THEN get_gpu_info_skipping(devices, i + 1, acc)
         ELSE get_gpu_info_skipping(devices, i + 1,
                 Append(acc, GpuInfo(i - 1, devices[i].memory.value,
                                     IF devices[i].utilization.ok
                                     THEN devices[i].utilization.value ELSE 0,
                                     IF devices[i].processes.ok
                                     THEN devices[i].processes.value ELSE 0)))

\* The for loop of get_gpu_info from device i on, gpus being acc so far: an
\* NVMLError of the handle or memory query leaves the function, one of the
\* utilization or process query gives 0.
RECURSIVE get_gpu_info_loop(_, _, _)
get_gpu_info_loop(devices, i, acc) ==
    IF i > Len(devices) THEN [raised |-> FALSE, gpus |-> acc]
    ELSE IF ~devices[i].memory.ok THEN [raised |-> TRUE, gpus |-> <<>>]
    ELSE LET gpu_util == IF devices[i].utilization.ok
                         THEN devices[i].utilization.value ELSE 0
             process_count == IF devices[i].processes.ok
                              THEN devices[i].processes.value ELSE 0
         IN get_gpu_info_loop(devices, i + 1,
                Append(acc, GpuInfo(i - 1, devices[i].memory.value,
                                    gpu_util, process_count)))

get_gpu_info(readings) ==
    IF ~readings.count_ok THEN [raised |-> TRUE, gpus |-> <<>>]
    ELSE get_gpu_info_loop(readings.devices, 1, <<>>)

InitTelemetry ==
    /\ args \in [mem : ProgMemChoices, gpus : 1..MaxDevices, interval : {1},
                 occupy : {FALSE}, command : {<<"python", "train.py">>},
                 strategy : GpuSelectionStrategy]
    /\ settings = [service |-> "slack", credentials |-> TRUE,
                   notify_on_gpu_found |-> TRUE,
                   notify_on_task_complete |-> TRUE]
    /\ nvml_count \in 0..MaxDevices
    /\ nvml \in Readings(nvml_count)
    /\ pc = "poll"
    /\ gpus = <<>>
    /\ Fresh

\* One iteration of wait_for_gpu's loop on these answers: the capture raises
\* and nothing catches the NVMLError, or it returns and the selector runs.
PollReadings ==
    /\ pc = "poll"
    /\ Len(polls) < MaxPolls
    /\ LET capture == get_gpu_info(nvml)
       IN IF capture.raised
          THEN /\ ProcessExit(1, "telemetry")
               /\ UNCHANGED <<gpus, result, polls>>
          ELSE /\ gpus' = capture.gpus
               /\ result' = find_available_gpu(capture.gpus, args.mem,
                                               args.gpus, args.strategy)
               /\ polls' = Append(polls, result'.found)
               /\ pc' = IF result'.found THEN "found" ELSE "sleep"
               /\ UNCHANGED <<session, memory_occupiers, in_flight,
                              exit_cause, exit_code>>
    /\ UNCHANGED <<inputs, sleeps, gpu_indices, sent, notifier, child,
                   cuda_count, pos, passes, launched, fault, alloc_calls,
                   alloc_failed, term_cause, interrupted, usage_stream>>

NextTelemetry == PollReadings

SpecTelemetry == InitTelemetry /\ [][NextTelemetry]_vars

(***************************************************************************)
(* wait_for_gpu alone, polling without end: past MaxPolls the loop goes on *)
(* and the histories polls and sleeps stay as they are.                    *)
(***************************************************************************)
InitLive ==
    /\ args \in [mem : ProgMemChoices, gpus : 1..MaxDevices,
                 interval : AcceptedIntervals,
                 occupy : {FALSE}, command : {<<"python", "train.py">>},
                 strategy : GpuSelectionStrategy]
    /\ settings = [service |-> "slack", credentials |-> TRUE,
                   notify_on_gpu_found |-> TRUE,
                   notify_on_task_complete |-> TRUE]
    /\ nvml_count \in 0..MaxDevices
    /\ nvml = NoReadings
    /\ pc = "poll"
    /\ gpus = <<>>
    /\ Fresh

\* The lists get_gpu_info returns in these runs: they differ in what decides
\* whether a poll succeeds, the free memory and the process count.
LiveSnapshots(n) ==
    { [k \in 1..n |-> GpuInfo(k - 1, f[k][1], 10, f[k][2])] :
        f \in [1..n -> ProgFreeValues \X ProcValues] }

\* One find_available_gpu call of the loop: a fresh capture, then selection.
PollLive ==
    /\ pc = "poll"
    /\ \E snapshot \in LiveSnapshots(nvml_count) :
          /\ gpus' = snapshot
          /\ result' = find_available_gpu(snapshot, args.mem, args.gpus,
                                          args.strategy)
    /\ polls' = IF Len(polls) < MaxPolls THEN Append(polls, result'.found)
                ELSE polls
    /\ pc' = IF result'.found THEN "found" ELSE "sleep"
    /\ UNCHANGED <<inputs, sleeps, gpu_indices, sent, notifier, child,
                   occupier, interrupted, usage_stream, exit_cause,
                   exit_code>>

\* result is None: time.sleep(check_interval), then the loop starts over.
SleepLive ==
    /\ pc = "sleep"
    /\ args.interval >= 0
    /\ sleeps' = IF Len(sleeps) < MaxPolls THEN Append(sleeps, args.interval)
                 ELSE sleeps
    /\ gpus' = <<>>
    /\ pc' = "poll"
    /\ UNCHANGED <<inputs, result, polls, gpu_indices, sent, notifier, child,
                   occupier, interrupted, usage_stream, exit_cause,
                   exit_code>>

NextLive ==
    PollLive \/ PollFails \/ SleepLive \/ SleepFails \/ ReturnFound \/ SigInt

\* The main thread keeps running: a due capture is made, a sleep ends, a
\* found result is returned.
SpecLive ==
    /\ InitLive
    /\ [][NextLive]_vars
    /\ WF_vars(PollLive)
    /\ WF_vars(SleepLive)
    /\ WF_vars(ReturnFound)

(***************************************************************************)
(* Properties of the selector (checked under SpecSelect).                  *)
(***************************************************************************)
\* Positions of the snapshot whose device passes the request's filter.
MemoryEligible == {k \in 1..Len(gpus) :
                      gpus[k].free_memory >= RequiredBytes(args.mem)}
Candidates == {k \in MemoryEligible :
                  args.strategy = EXCLUSIVE => gpus[k].process_count = 0}
ChosenSet == {result.chosen[k] : k \in 1..Len(result.chosen)}

\* a ranks strictly before b: the strategy's order, index ascending on ties.
RanksBefore(a, b) ==
    IF args.strategy = EXCLUSIVE
    THEN \/ a.free_memory > b.free_memory
         \/ a.free_memory = b.free_memory /\ a.index < b.index
    ELSE \/ a.utilization < b.utilization
         \/ a.utilization = b.utilization /\ a.free_memory > b.free_memory
         \/ /\ a.utilization = b.utilization
            /\ a.free_memory = b.free_memory
            /\ a.index < b.index

\* The chosen list is the first args.gpus candidates in rank order.
FirstByRank ==
    /\ Len(result.chosen) = args.gpus
    /\ ChosenSet \subseteq {gpus[k] : k \in Candidates}
    /\ \A i, j \in 1..Len(result.chosen) :
          i < j => RanksBefore(result.chosen[i], result.chosen[j])
    /\ \A k \in Candidates :
          gpus[k] \notin ChosenSet =>
              \A c \in ChosenSet : RanksBefore(c, gpus[k])
    /\ Len(result.indices) = Len(result.chosen)
    /\ \A i \in 1..Len(result.chosen) :
          result.indices[i] = result.chosen[i].index

\* C1: for every snapshot list and every request (device_count >= 1), the
\* selector returns None or exactly device_count entries of the snapshot,
\* never fewer; every entry has free_memory >= required_bytes, and under the
\* exclusive strategy process_count = 0.
C1_AllOrNothing ==
    (pc = "selected" /\ args.gpus >= 1) =>
        IF result.found
        THEN /\ Len(result.chosen) = args.gpus
             /\ Len(result.indices) = args.gpus
             /\ Cardinality(ChosenSet) = args.gpus
             /\ \A c \in ChosenSet :
                   /\ \E k \in 1..Len(gpus) : gpus[k] = c
                   /\ c.free_memory >= RequiredBytes(args.mem)
                   /\ args.strategy = EXCLUSIVE => c.process_count = 0
        ELSE result.chosen = <<>> /\ result.indices = <<>>

C1_Witness ==
    /\ pc = "selected" /\ result.found
    /\ args.strategy = EXCLUSIVE /\ args.gpus = 2 /\ Len(gpus) = 3
    /\ \E k \in MemoryEligible : gpus[k].process_count > 0

\* C2: under the utilization strategy a Found result is the first
\* device_count memory-eligible devices in the order (utilization ascending,
\* free_memory descending, index ascending), no eligible device left out
\* ranks before a returned one, and indices[i] is the index of chosen[i].
C2_UtilizationRank ==
    (pc = "selected" /\ args.strategy = UTILIZATION /\ args.gpus >= 1
        /\ result.found) => FirstByRank

C2_Witness ==
    /\ pc = "selected" /\ result.found
    /\ args.strategy = UTILIZATION /\ args.gpus = 2 /\ Len(gpus) = 3
    /\ Cardinality(MemoryEligible) = 3
    /\ result.indices = <<2, 0>>
    /\ result.chosen[1].utilization = result.chosen[2].utilization
    /\ result.chosen[1].free_memory > result.chosen[2].free_memory

\* C3: under the exclusive strategy a Found result is the first device_count
\* devices with free_memory >= required_bytes and process_count = 0, in the
\* order (free_memory descending, index ascending); no such device left out
\* has more free memory than a returned one.
C3_ExclusiveRank ==
    (pc = "selected" /\ args.strategy = EXCLUSIVE /\ args.gpus >= 1
        /\ result.found) =>
        /\ FirstByRank
        /\ \A k \in Candidates : \A c \in ChosenSet :
              gpus[k] \notin ChosenSet =>
                  gpus[k].free_memory <= c.free_memory

C3_Witness ==
    /\ pc = "selected" /\ result.found
    /\ args.strategy = EXCLUSIVE /\ args.gpus = 1 /\ Len(gpus) = 3
    /\ result.indices = <<2>>
    /\ 1 \in MemoryEligible /\ gpus[1].process_count > 0
    /\ 2 \in Candidates /\ gpus[2].free_memory < gpus[3].free_memory

\* C4: for device_count >= 1 the selector returns NotFound exactly when
\* fewer than device_count devices pass the strategy's filter.
C4_NotFoundIffTooFew ==
    (pc = "selected" /\ args.gpus >= 1) =>
        (result.found <=> Cardinality(Candidates) >= args.gpus)

C4_Witness ==
    /\ pc = "selected" /\ ~result.found
    /\ args.strategy = EXCLUSIVE /\ args.gpus = 2
    /\ Cardinality(Candidates) = 1 /\ Cardinality(MemoryEligible) = 3

(***************************************************************************)
(* Properties of the waiter and of main (checked under Spec).              *)
(***************************************************************************)
AllMisses == \A i \in 1..Len(polls) : ~polls[i]
ConfiguredSleeps == \A i \in 1..Len(sleeps) : sleeps[i] = args.interval
InWaiter(p) == p \in {"poll", "sleep", "found"}

\* When the k-th capture is the first that gives Found, it is the last one:
\* k captures, k-1 sleeps of the configured interval.
FirstSuccessCounts ==
    /\ Len(polls) >= 1
    /\ polls[Len(polls)]
    /\ \A i \in 1..(Len(polls) - 1) : ~polls[i]
    /\ Len(sleeps) = Len(polls) - 1
    /\ ConfiguredSleeps

\* C5: misses on the first k-1 polls and Found on poll k give exactly k
\* captures and k-1 sleeps, each of the configured interval, and the waiter
\* returns at once the indices selected from the k-th capture: no further
\* capture, no sleep, no second selection.
C5_FirstSuccessWins ==
    /\ [](pc = "found" =>
            /\ FirstSuccessCounts
            /\ result = find_available_gpu(gpus, args.mem, args.gpus,
                                           args.strategy)
            /\ result.found)
    /\ [](gpu_indices.returned => FirstSuccessCounts)
    /\ [][pc = "found" /\ pc' # "exited" =>
            /\ gpu_indices' = [returned |-> TRUE, indices |-> result.indices]
            /\ polls' = polls
            /\ sleeps' = sleeps]_vars

C5_Witness ==
    /\ gpu_indices.returned
    /\ Len(polls) = 3 /\ Len(sleeps) = 2 /\ args.interval = 2
    /\ gpu_indices.indices = <<1, 0>>

\* C6: the waiter returns only after a poll gave Found, and it has no retry
\* bound and no backoff: after n misses in a row and no cancellation or
\* telemetry error it has neither returned nor ended the process, every
\* sleep so far was of the configured interval, a miss is followed by one
\* sleep of that interval, and then the next poll is due.
C6_UnboundedRetry ==
    /\ [](gpu_indices.returned => \E i \in 1..Len(polls) : polls[i])
    /\ []((AllMisses /\ exit_cause = "") =>
            /\ ~gpu_indices.returned
            /\ exit_code = NoExit
            /\ pc \in {"parse_args", "get_notifier", "startup", "poll",
                      "sleep"}
            /\ ConfiguredSleeps
            /\ pc = "sleep" => Len(sleeps) = Len(polls) - 1
            /\ pc = "poll" => Len(sleeps) = Len(polls)
            /\ (pc = "poll" /\ Len(polls) < MaxPolls) => ENABLED Poll)
    /\ [][pc = "sleep" /\ pc' # "exited" =>
            /\ pc' = "poll"
            /\ sleeps' = Append(sleeps, args.interval)
            /\ polls' = polls
            /\ args' = args]_vars

C6_Witness ==
    /\ pc = "poll" /\ exit_cause = ""
    /\ Len(polls) = MaxPolls /\ AllMisses
    /\ Len(sleeps) = MaxPolls /\ args.interval = 2

\* C7: a SIGINT that arrives while the waiter polls or sleeps ends the
\* process with nothing handed on: no indices returned, no child started, no
\* allocation, no session, no notification.
C7_CancelledWaitLeavesNothing ==
    InWaiter(interrupted) =>
        /\ pc = "exited"
        /\ exit_cause = "interrupt"
        /\ ~gpu_indices.returned
        /\ ~child.started
        /\ alloc_calls = 0
        /\ memory_occupiers = {}
        /\ session = "None"
        /\ sent = <<>>

C7_Witness ==
    /\ interrupted = "sleep" /\ Len(polls) = 2 /\ pc = "exited"
    /\ settings.notify_on_gpu_found /\ settings.notify_on_task_complete

(***************************************************************************)
(* Properties of the occupier (checked under Spec).                        *)
(***************************************************************************)
OutOfRange == {k \in 1..Len(Indices) : Indices[k] \notin 0..(cuda_count - 1)}

\* C8: with an index outside 0..device_count-1 in gpu_indices, even beside
\* valid ones, the occupier ends with the pre-flight error: no allocation
\* is attempted, no device holds memory, the session is never started.
C8_InvalidIndexNoAllocation ==
    (cuda_count > 0 /\ OutOfRange # {}) =>
        /\ alloc_calls = 0
        /\ memory_occupiers = {}
        /\ session = "None"
        /\ pc \in {"validate", "exited"}
        /\ pc = "exited" =>
              \/ exit_cause = "invalid_index" /\ exit_code = <<1>>
              \/ exit_cause = "interrupt"

C8_Witness ==
    /\ pc = "exited" /\ exit_cause = "invalid_index"
    /\ cuda_count = 1 /\ Indices = <<1, 0>>

\* C9: once an allocation of the initialization has failed, the session is
\* over and no device holds memory from it, the devices allocated before
\* the failing one included.
C9_FailedInitReleasesAll ==
    alloc_failed =>
        /\ memory_occupiers = {}
        /\ session = "Terminated"
        /\ term_cause = "alloc"
        /\ pc = "exited"
        /\ exit_code = <<1>>

C9_Witness ==
    /\ alloc_failed /\ alloc_calls = 2 /\ Len(Indices) = 2
    /\ pc = "exited"

\* C10: a Running session ends only by cancellation or by an exception that
\* reaches the outer handler of the run loop; either way every allocation
\* of the session is released, and a Terminated session never holds one.
C10_TerminationReleases ==
    /\ [](session = "Terminated" => memory_occupiers = {})
    /\ [][session = "Running" /\ session' # "Running" =>
            /\ session' = "Terminated"
            /\ term_cause' \in {"interrupt", "exception"}
            /\ memory_occupiers' = {}]_vars
    /\ [][session = "Running" /\ session' = "Running" =>
            memory_occupiers' = memory_occupiers]_vars

C10_Witness ==
    /\ session = "Terminated" /\ term_cause = "exception"
    /\ pc = "notify_complete" /\ alloc_calls = 2 /\ passes = 1

(***************************************************************************)
(* Properties of the run loop (checked under Spec).                        *)
(***************************************************************************)
\* This step raised an exception while the loop was at one device.
DeviceFault == fault' # NoFault /\ fault' # fault

\* The exception stays with its device: the session runs on with every
\* buffer, and the loop is at the next device of the same pass.
RecoveredLocally ==
    /\ session' = "Running"
    /\ pc' = "run"
    /\ pos' = pos + 1
    /\ passes' = passes
    /\ memory_occupiers' = memory_occupiers
    /\ exit_code' = NoExit

\* A pass ends only when the loop is through gpu_indices, and the next one
\* starts at its first index.
PassesCoverAll ==
    passes' = passes + 1 =>
        /\ pos = Len(Indices) + 1
        /\ pos' = 1
        /\ session' = "Running"

\* C11 as stated: an exception raised while selecting, launching on or
\* synchronizing one device is recovered locally; the remaining devices of
\* the pass are processed, the session stays Running and the next pass
\* starts over all of gpu_indices.
C11_EveryDeviceFaultRecovered ==
    /\ [][DeviceFault => RecoveredLocally]_vars
    /\ [][PassesCoverAll]_vars

\* C11, amended: an exception raised by the launch or by the synchronize of
\* one device is recovered locally (the loop goes on with the next device,
\* the session stays Running, the next pass starts over all of
\* gpu_indices); an exception raised while the device is selected (its
\* context entered, its limits read) ends the session.
C11_LaunchSyncFaultRecovered ==
    /\ [][DeviceFault /\ fault'.stage \in {"launch", "sync"} =>
            RecoveredLocally]_vars
    /\ [][DeviceFault /\ fault'.stage = "select" =>
            /\ session' = "Terminated"
            /\ term_cause' = "exception"]_vars
    /\ [][PassesCoverAll]_vars

C11_Witness ==
    /\ session = "Running" /\ pc = "sync"
    /\ fault = NoFault /\ pos = 2 /\ Len(Indices) = 2
    /\ launched = {Indices[2]}
    /\ passes = 1

(***************************************************************************)
(* Properties of main after the wait (checked under Spec).                 *)
(***************************************************************************)
Titles == {sent[k].title : k \in 1..Len(sent)}
Events(title) == {k \in 1..Len(sent) : sent[k].title = title}

\* C12: in command mode, a run that SIGINT does not cut short ends by the
\* status of the child: non-zero gives exit code 1, no "Task Complete" and,
\* when notify_on_task_complete is set, one "Task Failed" whose message
\* carries the error; zero gives exit code 0, no "Task Failed" and, when the
\* flag is set, one "Task Complete".
C12_ChildStatusDecides ==
    (child.started /\ pc = "exited" /\ interrupted = "") =>
        IF child.status # 0
        THEN /\ exit_code = <<1>>
             /\ "Task Complete" \notin Titles
             /\ settings.notify_on_task_complete =>
                   /\ Cardinality(Events("Task Failed")) = 1
                   /\ \A k \in Events("Task Failed") :
                         /\ sent[k].message.error
                               = <<"CalledProcessError", child.status>>
                         /\ sent[k].message.task = Join(" ", args.command)
        ELSE /\ exit_code = <<0>>
             /\ "Task Failed" \notin Titles
             /\ settings.notify_on_task_complete =>
                   Cardinality(Events("Task Complete")) = 1

C12_Witness ==
    /\ pc = "exited" /\ interrupted = ""
    /\ child.started /\ child.status = 1
    /\ settings.notify_on_task_complete
    /\ "Task Failed" \in Titles /\ exit_code = <<1>>

\* text.split(sep), for a text that is a list of tokens: the tokens between
\* the separators.
RECURSIVE Split(_, _)
Split(text, sep) ==
    IF text = <<>> THEN <<>>
    ELSE IF Len(text) = 1 THEN <<text[1]>>
    ELSE IF text[2] = sep THEN <<text[1]>> \o Split(SubSeq(text, 3, Len(text)), sep)
    ELSE <<>>

\* C13: the child's CUDA_VISIBLE_DEVICES is the comma-joined list of the
\* indices wait_for_gpu returned, in the order returned (rank order), and
\* every other variable of the parent's environment reaches the child with
\* the parent's value; the child's environment holds nothing else.
C13_ChildEnvironment ==
    child.started =>
        /\ DOMAIN child.env = DOMAIN child.environ \cup {CUDA_VISIBLE_DEVICES}
        /\ Split(child.env[CUDA_VISIBLE_DEVICES], ",") = StrAll(Indices)
        /\ Len(child.env[CUDA_VISIBLE_DEVICES]) =
              IF Indices = <<>> THEN 0 ELSE 2 * Len(Indices) - 1
        /\ \A n \in DOMAIN child.environ \ {CUDA_VISIBLE_DEVICES} :
              child.env[n] = child.environ[n]

C13_Witness ==
    /\ child.started
    /\ Indices = <<1, 0>>
    /\ child.env[CUDA_VISIBLE_DEVICES] = <<"1", ",", "0">>
    /\ CUDA_VISIBLE_DEVICES \in DOMAIN child.environ
    /\ child.env["PATH"] = <<"/usr/bin">>

\* No scheduling was attempted: no notifier, no NVML, no poll, no
\* notification, no child, no occupation.
NothingScheduled ==
    /\ polls = <<>> /\ sleeps = <<>> /\ gpus = <<>>
    /\ ~gpu_indices.returned
    /\ sent = <<>> /\ queue = <<>>
    /\ ~child.started
    /\ session = "None" /\ alloc_calls = 0

UsageError ==
    \/ args.occupy /\ args.command # <<>>
    \/ ~args.occupy /\ args.command = <<>>

\* C14: with --occupy and a command both given or both missing, the program
\* reports a usage error on standard error and exits with status 1, and
\* nothing is scheduled: no telemetry, no poll, no notification, no child.
C14_UsageErrorOnStderr ==
    (UsageError /\ pc = "exited" /\ interrupted = "") =>
        /\ usage_stream = "stderr"
        /\ exit_code = <<1>>
        /\ NothingScheduled

\* The occupation ended by an error: the pre-flight index check, a failed
\* allocation, or an exception that reached the handler of the run loop.
OccupationFailed ==
    /\ args.occupy
    /\ \/ exit_cause \in {"invalid_index", "alloc"}
       \/ term_cause = "exception"

\* C15: in occupy mode "Occupation Complete" is dispatched only after a
\* normal completion; an occupation that ended by an error gives, with
\* notify_on_task_complete set, "Task Failed" and no "Occupation Complete".
C15_OccupationOutcomeNotified ==
    /\ "Occupation Complete" \in Titles => ~OccupationFailed
    /\ (OccupationFailed /\ pc = "exited" /\ interrupted = ""
            /\ settings.notify_on_task_complete) =>
          /\ "Task Failed" \in Titles
          /\ "Occupation Complete" \notin Titles

\* C16: no "GPUs Found" is dispatched with notify_on_gpu_found off, and no
\* "Task Complete", "Occupation Complete" or "Task Failed" with
\* notify_on_task_complete off; with notify_on_gpu_found on, exactly one
\* "GPUs Found" is dispatched, after wait_for_gpu has returned and before
\* anything else, and its message names the task and the returned indices
\* (a SIGINT between the return and the send leaves none).
C16_NotificationsGated ==
    /\ ~settings.notify_on_gpu_found => "GPUs Found" \notin Titles
    /\ ~settings.notify_on_task_complete =>
          Titles \cap {"Task Complete", "Occupation Complete",
                       "Task Failed"} = {}
    /\ ~gpu_indices.returned => sent = <<>>
    /\ Cardinality(Events("GPUs Found")) <= 1
    /\ (/\ settings.notify_on_gpu_found
        /\ gpu_indices.returned
        /\ pc # "notify_found" /\ interrupted # "notify_found") =>
          /\ Events("GPUs Found") = {1}
          /\ sent[1].message = Message(task_name, Indices, <<>>)

C16_Witness ==
    /\ settings.notify_on_gpu_found /\ ~settings.notify_on_task_complete
    /\ args.occupy /\ pc = "exited" /\ exit_cause = "done"
    /\ Len(sent) = 1
    /\ sent[1].title = "GPUs Found"
    /\ sent[1].message.task = <<"<GPU Occupation>">>
    /\ sent[1].message.gpus = <<1, 0>>

(***************************************************************************)
(* Properties of the notifier (checked under Spec).                        *)
(***************************************************************************)
\* What the main thread has chosen, run and returned.
scheduler == <<pc, gpus, result, polls, sleeps, gpu_indices, sent, child,
               cuda_count, session, memory_occupiers, pos, passes, in_flight,
               launched, fault, alloc_calls, alloc_failed, term_cause,
               interrupted, usage_stream, exit_cause, exit_code>>

\* C17: send is fire-and-forget.  A send step of the main thread only
\* appends to the executor's queue and moves on, whatever is still queued;
\* the main thread is never kept waiting at a send; and a step of the worker,
\* delivering or failing, changes nothing of what the main thread has chosen,
\* run or returned, the exit code included.
C17_FireAndForget ==
    /\ [][sent' # sent =>
            /\ pc' # pc
            /\ delivery' = delivery
            /\ queue' = IF settings.service \in RemoteServices
                           /\ settings.credentials
                        THEN Append(queue, sent'[Len(sent')].title)
                        ELSE queue]_vars
    /\ [](pc = "notify_found" => ENABLED NotifyFound)
    /\ [](pc = "notify_complete" => ENABLED NotifyComplete)
    /\ [](pc = "task_failed" => ENABLED TaskFailed)
    /\ [][delivery' # delivery => UNCHANGED scheduler]_vars
    /\ [](pc = "exited" =>
            exit_code = IF exit_cause \in {"done", "interrupt"}
                        THEN <<0>> ELSE <<1>>)

C17_Witness ==
    /\ pc = "exited" /\ exit_cause = "done" /\ exit_code = <<0>>
    /\ child.status = 0
    /\ delivery = <<FALSE>> /\ queue = <<"Task Complete">>

(***************************************************************************)
(* Properties of the telemetry capture (checked under SpecTelemetry).      *)
(***************************************************************************)
\* The device count or the memory figures of some device cannot be obtained.
CaptureFails ==
    \/ ~nvml.count_ok
    \/ \E k \in 1..Len(nvml.devices) : ~nvml.devices[k].memory.ok

\* C18: a failed utilization or process query of a device gives 0 in that
\* field and the capture still returns one dict per device, in index order
\* 0..N-1, with the figures the driver gave; a failed device count or memory
\* query returns no list and ends the process with status 1: no poll is
\* counted as a miss, no sleep follows.
C18_TelemetryDegradesOrFails ==
    pc # "poll" =>
        IF CaptureFails
        THEN /\ pc = "exited"
             /\ exit_code = <<1>> /\ exit_cause = "telemetry"
             /\ gpus = <<>> /\ result = NotFound
             /\ polls = <<>> /\ sleeps = <<>>
        ELSE /\ pc \in {"found", "sleep"}
             /\ Len(polls) = 1
             /\ Len(gpus) = nvml_count
             /\ \A k \in 1..nvml_count :
                   /\ gpus[k].index = k - 1
                   /\ gpus[k].free_memory = nvml.devices[k].memory.value
                   /\ gpus[k].utilization =
                         IF nvml.devices[k].utilization.ok
                         THEN nvml.devices[k].utilization.value ELSE 0
                   /\ gpus[k].process_count =
                         IF nvml.devices[k].processes.ok
                         THEN nvml.devices[k].processes.value ELSE 0

C18_Witness ==
    /\ pc = "found" /\ nvml_count = 2
    /\ ~nvml.devices[1].utilization.ok /\ gpus[1].utilization = 0
    /\ ~nvml.devices[2].processes.ok /\ gpus[2].process_count = 0
    /\ nvml.devices[2].utilization.value = 50
    /\ result.indices = <<0, 1>>

(***************************************************************************)
(* Properties of the session's initialization (checked under Spec).        *)
(***************************************************************************)
\* C19: a Running session holds a buffer on every index of gpu_indices, one
\* successful allocation each; once an allocation has failed the session is
\* never Running and no kernel is launched, and no kernel is launched before
\* every allocation is through.
C19_AllOrNothingInit ==
    /\ session = "Running" =>
          /\ \A k \in 1..Len(Indices) : Indices[k] \in memory_occupiers
          /\ alloc_calls = Len(Indices)
          /\ ~alloc_failed
    /\ alloc_failed =>
          /\ session # "Running"
          /\ launched = {} /\ in_flight = {} /\ passes = 0
    /\ launched # {} => alloc_calls = Len(Indices) /\ ~alloc_failed
    /\ session = "Initializing" => launched = {}

C19_Witness ==
    /\ session = "Running" /\ Indices = <<1, 0>>
    /\ memory_occupiers = {0, 1} /\ launched = {1} /\ in_flight = {1}

(***************************************************************************)
(* Properties of the polling loop (checked under SpecLive).                *)
(***************************************************************************)
\* The snapshot of this iteration has device_count devices that pass the
\* request's filter.
EnoughCandidates == Cardinality(Candidates) >= args.gpus
SatisfiedFromSomePollOn == <>[](pc \in {"found", "sleep"} => EnoughCandidates)

\* C20 as stated: without cancellation, and with every snapshot from some
\* poll on holding device_count passing devices, wait_for_gpu eventually
\* returns; the polling loop ends only by selection success or by
\* cancellation.
C20_ReturnsOrCancelled ==
    /\ ([](interrupted = "") /\ SatisfiedFromSomePollOn)
          => <>gpu_indices.returned
    /\ [][InWaiter(pc) /\ ~InWaiter(pc') =>
            \/ gpu_indices'.returned
            \/ exit_cause' = "interrupt"]_vars

\* C20, amended: without cancellation, without a fatal telemetry error and
\* without a sleep that raises (negative interval), and with every snapshot
\* from some poll on holding device_count passing devices, wait_for_gpu
\* eventually returns the indices of a Found result; the polling loop ends
\* only by selection success, by cancellation, by a capture that raises or
\* by a sleep that raises (the last two end the process).
C20_ReturnsUnlessProcessEnds ==
    /\ ([](interrupted = "" /\ exit_cause \notin {"telemetry", "sleep"})
           /\ SatisfiedFromSomePollOn)
          => <>gpu_indices.returned
    /\ [][InWaiter(pc) /\ ~InWaiter(pc') =>
            \/ gpu_indices'.returned /\ result.found
            \/ exit_cause' \in {"interrupt", "telemetry"}
            \/ exit_cause' = "sleep" /\ args.interval < 0]_vars

C20_Witness ==
    /\ gpu_indices.returned /\ Len(gpu_indices.indices) = 2
    /\ args.interval = 0
    /\ Len(polls) = MaxPolls /\ Len(sleeps) = MaxPolls
    /\ \A i \in 1..Len(polls) : ~polls[i]

(***************************************************************************)
(* Properties of the polling interval (checked under SpecLive).            *)
(***************************************************************************)
\* C21 as stated: the waiter polls only with an interval > 0, and every
\* sleep between two captures has a positive duration.
C21_PositiveIntervalOnly ==
    /\ polls # <<>> => args.interval > 0
    /\ \A i \in 1..Len(sleeps) : sleeps[i] > 0

(***************************************************************************)
(* Properties of the run loop's order (checked under Spec).                *)
(***************************************************************************)
Running == session = "Running" /\ session' = "Running"

\* C22: within a session the list gpu_indices stays as it is; a kernel is
\* launched only while no kernel of the session is in flight, and on the
\* device at the loop's position; the position moves from one device of
\* gpu_indices to the next, and back to the first only when a pass is
\* through; so at most one device has a kernel in flight at any time.
C22_SequentialFixedOrder ==
    [][/\ SessionActive => gpu_indices' = gpu_indices
       /\ Cardinality(in_flight) <= 1 /\ Cardinality(in_flight') <= 1
       /\ (Running /\ in_flight' \ in_flight # {}) =>
             /\ in_flight = {}
             /\ in_flight' = {Indices[pos]}
             /\ pos' = pos
       /\ (Running /\ pos' # pos) =>
             /\ in_flight' = {}
             /\ \/ pos <= Len(Indices) /\ pos' = pos + 1
                \/ /\ pos = Len(Indices) + 1 /\ pos' = 1
                   /\ passes' = passes + 1]_vars

C22_Witness ==
    /\ session = "Running" /\ pc = "sync"
    /\ passes = 1 /\ Len(Indices) = 2 /\ pos = 2
    /\ in_flight = {Indices[2]}
    /\ launched = {Indices[1], Indices[2]}

(***************************************************************************)
(* Properties of the notifier's construction (checked under Spec).         *)
(***************************************************************************)
\* C23 as stated: whatever service is configured, the default "none"
\* included, get_notifier never ends the process; with service "none" no
\* send submits a request, so none can fail.
C23_EveryServiceConstructs ==
    /\ exit_cause # "notifier"
    /\ settings.service = "none" => queue = <<>> /\ delivery = <<>>

(***************************************************************************)
(* Properties of the exclusive strategy on degraded captures (checked      *)
(* under SpecTelemetry).                                                   *)
(***************************************************************************)
\* The driver's answer to the process query of the device with index i.
Processes(i) == nvml.devices[i + 1].processes
ExclusiveFound == pc = "found" /\ args.strategy = EXCLUSIVE

\* C24 as stated: every device an exclusive poll returns was observed in
\* that poll with zero compute processes; a device whose process query
\* failed is never returned.
C24_ExclusiveObservedIdle ==
    ExclusiveFound =>
        \A k \in 1..Len(result.indices) :
            /\ Processes(result.indices[k]).ok
            /\ Processes(result.indices[k]).value = 0

\* C24, amended: every device an exclusive poll returns has process_count 0
\* in that poll's snapshot, which means that its process query answered
\* zero or failed; a device observed with a resident process is never
\* returned.
C24_ExclusiveReportedIdle ==
    ExclusiveFound =>
        \A k \in 1..Len(result.indices) :
            /\ result.chosen[k].process_count = 0
            /\ gpus[result.indices[k] + 1].process_count = 0
            /\ \/ ~Processes(result.indices[k]).ok
               \/ Processes(result.indices[k]).value = 0

C24_Witness ==
    /\ ExclusiveFound /\ nvml_count = 2
    /\ result.indices = <<1>>
    /\ ~Processes(1).ok
    /\ Processes(0).ok /\ Processes(0).value = 1
    /\ gpus[1].free_memory >= RequiredBytes(args.mem)

(***************************************************************************)
(* Properties of the requested device count (checked under Spec).          *)
(***************************************************************************)
\* C25 as stated: no poll of a request with device_count < 1 gives a Found
\* result, and the list wait_for_gpu returns, which is the list the command
\* or the occupier receives, has exactly device_count entries and is never
\* empty.
C25_DeviceCountAtLeastOne ==
    /\ (args.gpus < 1 /\ pc = "found") => ~result.found
    /\ gpu_indices.returned =>
          /\ args.gpus >= 1
          /\ Len(Indices) = args.gpus
    /\ (child.started \/ session # "None") =>
          /\ Indices # <<>>
          /\ Len(Indices) = args.gpus

=============================================================================
